---- MODULE Spec2Model ----
(***************************************************************************)
(* Model of the customlists module of portmaster                           *)
(* (src/intel/customlists/module.go): the four filter sets, the lookups,   *)
(* the public-suffix-aware domain decomposition and the reload check.      *)
(* Strings that the code takes apart (domain names) are sequences of       *)
(* one-character strings.                                                  *)
(***************************************************************************)
EXTENDS Integers, Sequences, FiniteSets, TLC

\* Longest domain string fed to splitDomain.
MaxLen == 8

\* Longest domain string fed to LookupDomain as a pure function.
MaxLookupLen == 6

\* Characters of domain strings: three letters and the label separator.
Alphabet == {"a", "b", "u", "."}

Dot == "."

\* All strings of at most n characters.
StringsUpTo(n) == UNION {[1..k -> Alphabet] : k \in 0..n}

(***************************************************************************)
(* String helpers of the Go standard library used by splitDomain.          *)
(***************************************************************************)

\* strings.TrimLeft(s, ".")
RECURSIVE TrimLeft(_)
TrimLeft(s) ==
    IF s # <<>> /\ Head(s) = Dot THEN TrimLeft(Tail(s)) ELSE s

\* strings.TrimRight(s, ".")
RECURSIVE TrimRight(_)
TrimRight(s) ==
    IF s # <<>> /\ s[Len(s)] = Dot THEN TrimRight(SubSeq(s, 1, Len(s) - 1)) ELSE s

\* strings.Trim(s, ".")
Trim(s) == TrimRight(TrimLeft(s))

\* strings.LastIndex(s, "."), as a 1-based position; 0 when there is no dot
\* (Go: 0-based, -1 when there is none).
LastIndex(s) ==
    LET dots == {i \in 1..Len(s) : s[i] = Dot}
    IN IF dots = {} THEN 0 ELSE CHOOSE i \in dots : \A j \in dots : j <= i

\* strings.FieldsFunc(s, r == '.'): the maximal dot-free runs of s, in order.
RECURSIVE FieldsFunc(_)
FieldsFunc(s) ==
    IF s = <<>> THEN <<>>
    ELSE IF Head(s) = Dot THEN FieldsFunc(Tail(s))
    ELSE LET stops == {i \in 1..Len(s) : s[i] = Dot}
             end == IF stops = {} THEN Len(s) + 1
                    ELSE CHOOSE i \in stops : \A j \in stops : i <= j
         IN <<SubSeq(s, 1, end - 1)>> \o FieldsFunc(SubSeq(s, end, Len(s)))

\* strings.Join(elems, ".")
RECURSIVE Join(_)
Join(elems) ==
    IF elems = <<>> THEN <<>>
    ELSE IF Len(elems) = 1 THEN elems[1]
    ELSE elems[1] \o <<Dot>> \o Join(Tail(elems))

(***************************************************************************)
(* golang.org/x/net/publicsuffix: the rule table is a trie of labels read  *)
(* right to left.  The table of the model has the rules "u" and "b.u"      *)
(* (the shape of "uk" and "co.uk").                                        *)
(***************************************************************************)
PSLNodes == {<<"u">>, <<"b", ".", "u">>}

\* The loop of publicsuffix.PublicSuffix: s is the part of the domain not yet
\* matched, node the rule matched so far, suffix the offset where the longest
\* matching rule starts.
RECURSIVE PSWalk(_, _, _)
PSWalk(s, node, suffix) ==
    LET dot == LastIndex(s)
        label == SubSeq(s, dot + 1, Len(s))
        child == IF node = <<>> THEN label ELSE label \o <<Dot>> \o node
    IN IF child \notin PSLNodes THEN suffix
       ELSE IF dot = 0 THEN 0
       ELSE PSWalk(SubSeq(s, 1, dot - 1), child, dot)

\* publicsuffix.PublicSuffix(domain): the longest matching rule, and the last
\* label when no rule matches (the prevailing rule is "*").
PublicSuffix(domain) ==
    LET suffix == PSWalk(domain, <<>>, Len(domain))
    IN IF suffix = Len(domain)
       THEN SubSeq(domain, LastIndex(domain) + 1, Len(domain))
       ELSE SubSeq(domain, suffix + 1, Len(domain))

(***************************************************************************)
(* splitDomain and LookupDomain.                                           *)
(***************************************************************************)

\* SplitCandidate without the trailing dot.
SplitCandidateNoDot(splitted, idx, suffix) ==
    Join(SubSeq(splitted, idx, Len(splitted))) \o <<Dot>> \o suffix

\* The loop body of splitDomain: the candidate that starts at label idx.
SplitCandidate(splitted, idx, suffix) ==
    LET d == Join(SubSeq(splitted, idx, Len(splitted))) \o <<Dot>> \o suffix
    IN IF d[Len(d)] # Dot THEN d \o <<Dot>> ELSE d

\* splitDomain that dots the single candidate of the suffix == domain branch.
splitDomainDotted(fullDomain) ==
    LET domain == Trim(fullDomain)
        suffix == PublicSuffix(domain)
    IN IF suffix = domain THEN <<domain \o <<Dot>>>>
       ELSE LET domainWithoutSuffix ==
                    Trim(SubSeq(domain, 1, Len(domain) - Len(suffix)))
                splitted == FieldsFunc(domainWithoutSuffix)
            IN [idx \in 1..Len(splitted) |-> SplitCandidate(splitted, idx, suffix)]

splitDomain(fullDomain) ==
    LET domain == Trim(fullDomain)
        suffix == PublicSuffix(domain)
    IN IF suffix = domain THEN <<domain>>
       ELSE LET domainWithoutSuffix ==
                    Trim(SubSeq(domain, 1, Len(domain) - Len(suffix)))
                splitted == FieldsFunc(domainWithoutSuffix)
            IN [idx \in 1..Len(splitted) |-> SplitCandidate(splitted, idx, suffix)]

\* The range loop run from the least specific candidate to the most specific.
RECURSIVE LookupCandidatesBackwards(_, _, _)
LookupCandidatesBackwards(list, listOfDomains, idx) ==
    LET at == Len(listOfDomains) + 1 - idx
    IN IF idx > Len(listOfDomains) THEN [ok |-> FALSE, domain |-> <<>>]
       ELSE IF listOfDomains[at] \in list THEN [ok |-> TRUE, domain |-> listOfDomains[at]]
       ELSE LookupCandidatesBackwards(list, listOfDomains, idx + 1)

\* The range loop of LookupDomain over the candidates, from candidate idx on.
RECURSIVE LookupCandidates(_, _, _)
LookupCandidates(list, listOfDomains, idx) ==
    IF idx > Len(listOfDomains) THEN [ok |-> FALSE, domain |-> <<>>]
    ELSE IF listOfDomains[idx] \in list THEN [ok |-> TRUE, domain |-> listOfDomains[idx]]
    ELSE LookupCandidates(list, listOfDomains, idx + 1)

\* LookupDomain(fullDomain, filterSubdomains) against the domain set list.
LookupDomain(list, fullDomain, filterSubdomains) ==
    IF filterSubdomains
    THEN LookupCandidates(list, splitDomain(fullDomain), 1)
    ELSE [ok |-> fullDomain \in list, domain |-> fullDomain]

(***************************************************************************)
(* The reload check, the lookups and their environment.                    *)
(***************************************************************************)

\* Largest value of the clock and of a file's modification time.
MaxTime == 2

\* File paths the configuration can name; NoPath is the empty string
\* (no list configured).
Paths == {"p", "q"}
NoPath == ""

\* The zero value of time.Time.
ZeroTime == 0

\* What os.Stat returns: an error, or a modification time.
StatError == 0
StatResults == {StatError} \cup (1..MaxTime)

\* The three callers of checkAndUpdateFilterList: the parser task, the api
\* endpoint and the config change hook.
Triggers == {"task", "api", "hook"}

\* Concurrent callers of the Lookup functions.
Lookers == {"l1", "l2"}

\* File contents the parser accepts, and its failure.
Contents == {"c1", "c2"}
ParseError == "err"

\* Domain names as character sequences.
DomRoot == <<"a", ".", "u", ".">>
DomSub == <<"a", ".", "a", ".", "u", ".">>
DomSubNoDot == <<"a", ".", "a", ".", "u">>
DomSuffix == <<"u">>

\* The four sets a file content parses to.
BundleOf(c) ==
    IF c = "c1"
    THEN [ip |-> {"ip1"}, domain |-> {DomRoot}, asn |-> {1}, country |-> {"US"}]
    ELSE IF c = "c2"
    THEN [ip |-> {"ip2"}, domain |-> {DomSub, DomRoot}, asn |-> {2}, country |-> {"DE"}]
    ELSE [ip |-> {}, domain |-> {}, asn |-> {}, country |-> {}]

\* Calls the lookers make.
Requests ==
    {[kind |-> "ip", key |-> "ip1", sub |-> FALSE],
     [kind |-> "asn", key |-> 2, sub |-> FALSE],
     [kind |-> "country", key |-> "US", sub |-> FALSE],
     [kind |-> "domain", key |-> DomSubNoDot, sub |-> TRUE],
     [kind |-> "domain", key |-> DomRoot, sub |-> FALSE]}

NoRequest == [kind |-> "none", key |-> 0, sub |-> FALSE]
NoResult == [ok |-> FALSE, domain |-> <<"-">>]

\* Most runs of the create branch of getSpecialProcess that are counted.
MaxCreates == 2

\* The Pids of the two special processes.
UnidentifiedProcessID == -1
SystemProcessID == 0
SpecialPids == {UnidentifiedProcessID, SystemProcessID}

\* Concurrent callers of GetUnidentifiedProcess / GetSystemProcess.
SPCallers == {"g1", "g2", "g3"}

\* The key of a caller that is in no call: no special Pid.
NoPid == UnidentifiedProcessID - 1
\* GetProcessFromStorage finds nothing (ok is false).
NoProcess == [pid |-> NoPid, created |-> 0]

VARIABLES
    filterListFilePath,            \* path of the last successful parse
    filterListFileModifiedTime,    \* modification time of the last successful parse
    ipAddressesFilterList,
    domainsFilterList,
    autonomousSystemsFilterList,
    countryCodesFilterList,
    lockWriter,                    \* filterListLock: the holder of the write lock
    lockReaders,                   \* filterListLock: the holders of the read lock
    parserTask,                    \* "nil" until start() creates the task
    taskScheduled,                 \* an execution of the parser task is pending
    panicked,                      \* an invocation dereferenced the nil parserTask
    startPc,                       \* position of start()
    pc,                            \* position of each checkAndUpdateFilterList caller
    filePath,                      \* local of checkAndUpdateFilterList
    modifiedTime,                  \* local of checkAndUpdateFilterList
    statErr,                       \* local of checkAndUpdateFilterList: os.Stat failed
    parsed,                        \* result of parseFile in this invocation
    lpc,                           \* position of each lookup
    lreq,                          \* arguments of each lookup
    lres,                          \* return value of each lookup
    cfgPath,                       \* what getFilePath() returns
    now,                           \* the clock
    dpc, dIn, dFlag, dSplit, dRes, \* a call of splitDomain / LookupDomain on its own
    spPc,                          \* position of each caller of getSpecialProcess
    spKey,                         \* the Pid of the template it was called with
    spRet,                         \* the process it returns
    spFlight,                      \* singleflight group: per key, the caller running fn
    spStorage,                     \* process storage: per Pid, the saved process
    spCreated                      \* per Pid, how often the create branch has saved

listVars == <<ipAddressesFilterList, domainsFilterList,
              autonomousSystemsFilterList, countryCodesFilterList>>
recordVars == <<filterListFilePath, filterListFileModifiedTime>>
lockVars == <<lockWriter, lockReaders>>
taskVars == <<parserTask, taskScheduled, panicked, startPc>>
localVars == <<filePath, modifiedTime, statErr, parsed>>
lookVars == <<lpc, lreq, lres>>
envVars == <<cfgPath, now>>
spVars == <<spPc, spKey, spRet, spFlight, spStorage, spCreated>>
pureVars == <<dpc, dIn, dFlag, dSplit, dRes, spVars>>

vars == <<listVars, recordVars, lockVars, taskVars, pc, localVars, lookVars,
          envVars, pureVars>>

\* The four sets as one record.
CurrentLists ==
    [ip |-> ipAddressesFilterList, domain |-> domainsFilterList,
     asn |-> autonomousSystemsFilterList, country |-> countryCodesFilterList]

\* prep() has run (initFilterLists made the four sets empty); start() is about
\* to run.
ProgramInit ==
    /\ filterListFilePath = NoPath
    /\ filterListFileModifiedTime = ZeroTime
    /\ ipAddressesFilterList = {}
    /\ autonomousSystemsFilterList = {}
    /\ countryCodesFilterList = {}
    /\ lockWriter = "none"
    /\ lockReaders = {}
    /\ parserTask = "nil"
    /\ taskScheduled = FALSE
    /\ panicked = FALSE
    /\ startPc = "hook"
    /\ pc = [t \in Triggers |-> "idle"]
    /\ filePath = [t \in Triggers |-> NoPath]
    /\ modifiedTime = [t \in Triggers |-> ZeroTime]
    /\ statErr = [t \in Triggers |-> FALSE]
    /\ parsed = [t \in Triggers |-> "none"]
    /\ lpc = [l \in Lookers |-> "idle"]
    /\ lreq = [l \in Lookers |-> NoRequest]
    /\ lres = [l \in Lookers |-> NoResult]

\* No call of getSpecialProcess has been made and no process is stored.
SPInit ==
    /\ spPc = [g \in SPCallers |-> "idle"]
    /\ spKey = [g \in SPCallers |-> NoPid]
    /\ spRet = [g \in SPCallers |-> NoProcess]
    /\ spFlight = [k \in SpecialPids |-> "none"]
    /\ spStorage = [k \in SpecialPids |-> NoProcess]
    /\ spCreated = [k \in SpecialPids |-> 0]

PureOff ==
    /\ SPInit
    /\ dpc = "off"
    /\ dIn = <<>>
    /\ dFlag = FALSE
    /\ dSplit = <<>>
    /\ dRes = NoResult

Init ==
    /\ ProgramInit
    /\ domainsFilterList = {}
    /\ PureOff
    /\ cfgPath \in Paths \cup {NoPath}
    /\ now = 1

(***************************************************************************)
(* start()                                                                 *)
(***************************************************************************)

\* module.RegisterEventHook: from now on a config change runs the hook.  When
\* start() returns an error the module is not started: nothing calls it.
StartRegisterHook ==
    /\ startPc = "hook"
    /\ \E ok \in BOOLEAN : startPc' = IF ok THEN "task" ELSE "failed"
    /\ UNCHANGED <<listVars, recordVars, lockVars, parserTask, taskScheduled,
                   panicked, pc, localVars, lookVars, envVars, pureVars>>

\* parserTask = module.NewTask(...).Schedule(now + 20s)
StartCreateTask ==
    /\ startPc = "task"
    /\ parserTask' = "created"
    /\ taskScheduled' = TRUE
    /\ startPc' = "endpoint"
    /\ UNCHANGED <<listVars, recordVars, lockVars, panicked, pc, localVars,
                   lookVars, envVars, pureVars>>

\* api.RegisterEndpoint
StartRegisterEndpoint ==
    /\ startPc = "endpoint"
    /\ \E ok \in BOOLEAN : startPc' = IF ok THEN "done" ELSE "failed"
    /\ UNCHANGED <<listVars, recordVars, lockVars, parserTask, taskScheduled,
                   panicked, pc, localVars, lookVars, envVars, pureVars>>

HookRegistered == startPc \in {"task", "endpoint", "done"}
EndpointRegistered == startPc = "done"

(***************************************************************************)
(* checkAndUpdateFilterList()                                              *)
(***************************************************************************)

\* A write lock that does not exclude another writer.
CanLockReadersOnly == lockReaders = {}

\* filterListLock.Lock() can return.
CanLock == lockWriter = "none" /\ lockReaders = {}

\* The first statement of checkAndUpdateFilterList: filterListLock.Lock().
\* The caller t is blocked in it until it can return.
Lock(t) ==
    /\ pc[t] = "idle"
    /\ CanLock
    /\ lockWriter' = t
    /\ pc' = [pc EXCEPT ![t] = "getpath"]

\* The parser task runs: its function calls checkAndUpdateFilterList.
TaskRun ==
    /\ taskScheduled
    /\ startPc # "failed"
    /\ Lock("task")
    /\ taskScheduled' = FALSE
    /\ UNCHANGED <<listVars, recordVars, lockReaders, parserTask, panicked,
                   startPc, localVars, lookVars, envVars, pureVars>>

\* The api endpoint is called: its ActionFunc calls checkAndUpdateFilterList.
ApiCall ==
    /\ EndpointRegistered
    /\ Lock("api")
    /\ UNCHANGED <<listVars, recordVars, lockReaders, taskVars, localVars,
                   lookVars, envVars, pureVars>>

\* A config change event: the hook calls checkAndUpdateFilterList.
HookCall ==
    /\ HookRegistered
    /\ Lock("hook")
    /\ UNCHANGED <<listVars, recordVars, lockReaders, taskVars, localVars,
                   lookVars, envVars, pureVars>>

\* GetPath without the return on an empty path.
GetPathNoReturn(t) ==
    /\ pc[t] = "getpath"
    /\ filePath' = [filePath EXCEPT ![t] = cfgPath]
    /\ pc' = [pc EXCEPT ![t] = "schedule"]
    /\ UNCHANGED <<listVars, recordVars, lockVars, taskVars, modifiedTime, statErr, parsed,
                   lookVars, envVars, pureVars>>

\* filePath := getFilePath(); if filePath == "" { return }
GetPath(t) ==
    /\ pc[t] = "getpath"
    /\ filePath' = [filePath EXCEPT ![t] = cfgPath]
    /\ pc' = [pc EXCEPT ![t] = IF cfgPath = NoPath THEN "unlock" ELSE "schedule"]
    /\ UNCHANGED <<listVars, recordVars, lockVars, taskVars, modifiedTime, statErr, parsed,
                   lookVars, envVars, pureVars>>

\* ScheduleNext with the call of Schedule left out.
ScheduleNextNoArm(t) ==
    /\ pc[t] = "schedule"
    /\ pc' = [pc EXCEPT ![t] = "stat"]
    /\ UNCHANGED <<listVars, recordVars, lockVars, taskVars, localVars,
                   lookVars, envVars, pureVars>>

\* parserTask.Schedule(now + 1min); a nil parserTask panics and the deferred
\* Unlock runs.
ScheduleNext(t) ==
    /\ pc[t] = "schedule"
    /\ IF parserTask = "nil"
       THEN /\ panicked' = TRUE
            /\ pc' = [pc EXCEPT ![t] = "unlock"]
            /\ UNCHANGED taskScheduled
       ELSE /\ taskScheduled' = TRUE
            /\ pc' = [pc EXCEPT ![t] = "stat"]
            /\ UNCHANGED panicked
    /\ UNCHANGED <<listVars, recordVars, lockVars, parserTask, startPc, localVars,
                   lookVars, envVars, pureVars>>

\* Stat with modifiedTime declared as the zero time.Time.
StatZeroOnError(t) ==
    /\ pc[t] = "stat"
    /\ \E st \in StatResults :
          /\ modifiedTime' = [modifiedTime EXCEPT ![t] =
                                 IF st # StatError THEN st ELSE ZeroTime]
          /\ statErr' = [statErr EXCEPT ![t] = (st = StatError)]
    /\ pc' = [pc EXCEPT ![t] = "compare"]
    /\ UNCHANGED <<listVars, recordVars, lockVars, taskVars, filePath, parsed,
                   lookVars, envVars, pureVars>>

\* modifiedTime := time.Now(); if os.Stat succeeds, modifiedTime = ModTime().
Stat(t) ==
    /\ pc[t] = "stat"
    /\ \E st \in StatResults :
          /\ modifiedTime' = [modifiedTime EXCEPT ![t] =
                                 IF st # StatError THEN st ELSE now]
          /\ statErr' = [statErr EXCEPT ![t] = (st = StatError)]
    /\ pc' = [pc EXCEPT ![t] = "compare"]
    /\ UNCHANGED <<listVars, recordVars, lockVars, taskVars, filePath, parsed,
                   lookVars, envVars, pureVars>>

\* The comparison with the negation of Equal dropped.
NeedsParseEqual(t) ==
    \/ filterListFilePath # filePath[t]
    \/ filterListFileModifiedTime = modifiedTime[t]

\* The comparison with && in place of ||.
NeedsParseBoth(t) ==
    /\ filterListFilePath # filePath[t]
    /\ filterListFileModifiedTime # modifiedTime[t]

\* filterListFilePath != filePath || !filterListFileModifiedTime.Equal(modifiedTime)
NeedsParse(t) ==
    \/ filterListFilePath # filePath[t]
    \/ filterListFileModifiedTime # modifiedTime[t]

Compare(t) ==
    /\ pc[t] = "compare"
    /\ pc' = [pc EXCEPT ![t] = IF NeedsParse(t) THEN "parse" ELSE "unlock"]
    /\ UNCHANGED <<listVars, recordVars, lockVars, taskVars, localVars, lookVars,
                   envVars, pureVars>>

\* A parser that replaces the sets before it knows whether the file parsed.
ParseFileNextReplaceFirst(outcome) == "swap_ip"

\* Where parseFile goes after reading the file: it replaces the sets only
\* when the file parsed.
ParseFileNext(outcome) ==
    IF outcome = ParseError THEN "checkerr" ELSE "swap_ip"

\* parseFile(filePath): reads and classifies the file.
ParseFile(t) ==
    /\ pc[t] = "parse"
    /\ \E outcome \in Contents \cup {ParseError} :
          /\ parsed' = [parsed EXCEPT ![t] = outcome]
          /\ pc' = [pc EXCEPT ![t] = ParseFileNext(outcome)]
    /\ UNCHANGED <<listVars, recordVars, lockVars, taskVars, filePath, modifiedTime,
                   statErr, lookVars, envVars, pureVars>>

\* parseFile replaces the four package-level sets, one after the other.
SwapIP(t) ==
    /\ pc[t] = "swap_ip"
    /\ ipAddressesFilterList' = BundleOf(parsed[t]).ip
    /\ pc' = [pc EXCEPT ![t] = "swap_domain"]
    /\ UNCHANGED <<domainsFilterList, autonomousSystemsFilterList,
                   countryCodesFilterList, recordVars, lockVars, taskVars,
                   localVars, lookVars, envVars, pureVars>>

SwapDomain(t) ==
    /\ pc[t] = "swap_domain"
    /\ domainsFilterList' = BundleOf(parsed[t]).domain
    /\ pc' = [pc EXCEPT ![t] = "swap_asn"]
    /\ UNCHANGED <<ipAddressesFilterList, autonomousSystemsFilterList,
                   countryCodesFilterList, recordVars, lockVars, taskVars,
                   localVars, lookVars, envVars, pureVars>>

SwapASN(t) ==
    /\ pc[t] = "swap_asn"
    /\ autonomousSystemsFilterList' = BundleOf(parsed[t]).asn
    /\ pc' = [pc EXCEPT ![t] = "swap_country"]
    /\ UNCHANGED <<ipAddressesFilterList, domainsFilterList,
                   countryCodesFilterList, recordVars, lockVars, taskVars,
                   localVars, lookVars, envVars, pureVars>>

SwapCountry(t) ==
    /\ pc[t] = "swap_country"
    /\ countryCodesFilterList' = BundleOf(parsed[t]).country
    /\ pc' = [pc EXCEPT ![t] = "checkerr"]
    /\ UNCHANGED <<ipAddressesFilterList, domainsFilterList,
                   autonomousSystemsFilterList, recordVars, lockVars, taskVars,
                   localVars, lookVars, envVars, pureVars>>

\* The error of parseFile ignored.
AfterParseIgnoreErr(t) == "record_mtime"

\* err := parseFile(filePath); if err != nil { return }
AfterParse(t) ==
    IF parsed[t] = ParseError THEN "unlock" ELSE "record_mtime"

CheckErr(t) ==
    /\ pc[t] = "checkerr"
    /\ pc' = [pc EXCEPT ![t] = AfterParse(t)]
    /\ UNCHANGED <<listVars, recordVars, lockVars, taskVars, localVars, lookVars,
                   envVars, pureVars>>

\* filterListFileModifiedTime = modifiedTime
RecordModifiedTime(t) ==
    /\ pc[t] = "record_mtime"
    /\ filterListFileModifiedTime' = modifiedTime[t]
    /\ pc' = [pc EXCEPT ![t] = "record_path"]
    /\ UNCHANGED <<listVars, filterListFilePath, lockVars, taskVars, localVars,
                   lookVars, envVars, pureVars>>

\* RecordFilePath with the assignment left out.
RecordFilePathSkipped(t) ==
    /\ pc[t] = "record_path"
    /\ pc' = [pc EXCEPT ![t] = "unlock"]
    /\ UNCHANGED <<listVars, recordVars, lockVars, taskVars,
                   localVars, lookVars, envVars, pureVars>>

\* filterListFilePath = filePath
RecordFilePath(t) ==
    /\ pc[t] = "record_path"
    /\ filterListFilePath' = filePath[t]
    /\ pc' = [pc EXCEPT ![t] = "unlock"]
    /\ UNCHANGED <<listVars, filterListFileModifiedTime, lockVars, taskVars,
                   localVars, lookVars, envVars, pureVars>>

\* A return that leaves the write lock held.
UnlockKeepsLock(t) ==
    /\ pc[t] = "unlock"
    /\ pc' = [pc EXCEPT ![t] = "idle"]
    /\ filePath' = [filePath EXCEPT ![t] = NoPath]
    /\ modifiedTime' = [modifiedTime EXCEPT ![t] = ZeroTime]
    /\ statErr' = [statErr EXCEPT ![t] = FALSE]
    /\ parsed' = [parsed EXCEPT ![t] = "none"]
    /\ UNCHANGED <<listVars, recordVars, lockVars, taskVars, lookVars, envVars,
                   pureVars>>

\* defer filterListLock.Unlock(), and the return.
Unlock(t) ==
    /\ pc[t] = "unlock"
    /\ lockWriter' = "none"
    /\ pc' = [pc EXCEPT ![t] = "idle"]
    /\ filePath' = [filePath EXCEPT ![t] = NoPath]
    /\ modifiedTime' = [modifiedTime EXCEPT ![t] = ZeroTime]
    /\ statErr' = [statErr EXCEPT ![t] = FALSE]
    /\ parsed' = [parsed EXCEPT ![t] = "none"]
    /\ UNCHANGED <<listVars, recordVars, lockReaders, taskVars, lookVars, envVars,
                   pureVars>>

(***************************************************************************)
(* LookupIP / LookupDomain / LookupASN / LookupCountry                     *)
(***************************************************************************)

\* A caller enters one of the Lookup functions; its arguments are drawn when
\* the body reads them.
LookupCall(l) ==
    /\ lpc[l] = "idle"
    /\ lpc' = [lpc EXCEPT ![l] = "rlock"]
    /\ UNCHANGED <<listVars, recordVars, lockVars, taskVars, pc, localVars, lreq,
                   lres, envVars, pureVars>>

\* A read lock that does not wait for the writer.
CanRLockAlways == TRUE

\* filterListLock.RLock() can return.
CanRLock == lockWriter = "none"

RLock(l) ==
    /\ lpc[l] = "rlock"
    /\ CanRLock
    /\ lockReaders' = lockReaders \cup {l}
    /\ lpc' = [lpc EXCEPT ![l] = "read"]
    /\ UNCHANGED <<listVars, recordVars, lockWriter, taskVars, pc, localVars,
                   lreq, lres, envVars, pureVars>>

\* The body of the four Lookup functions against the sets lists.
LookupIn(lists, r) ==
    IF r.kind = "domain" THEN LookupDomain(lists.domain, r.key, r.sub)
    ELSE IF r.kind = "ip" THEN [ok |-> r.key \in lists.ip, domain |-> <<>>]
    ELSE IF r.kind = "asn" THEN [ok |-> r.key \in lists.asn, domain |-> <<>>]
    ELSE [ok |-> r.key \in lists.country, domain |-> <<>>]

Read(l) ==
    /\ lpc[l] = "read"
    /\ \E r \in Requests :
          /\ lreq' = [lreq EXCEPT ![l] = r]
          /\ lres' = [lres EXCEPT ![l] = LookupIn(CurrentLists, r)]
    /\ lpc' = [lpc EXCEPT ![l] = "runlock"]
    /\ UNCHANGED <<listVars, recordVars, lockVars, taskVars, pc, localVars,
                   envVars, pureVars>>

\* defer filterListLock.RUnlock(), and the return.
RUnlock(l) ==
    /\ lpc[l] = "runlock"
    /\ lockReaders' = lockReaders \ {l}
    /\ lpc' = [lpc EXCEPT ![l] = "idle"]
    /\ lreq' = [lreq EXCEPT ![l] = NoRequest]
    /\ lres' = [lres EXCEPT ![l] = NoResult]
    /\ UNCHANGED <<listVars, recordVars, lockWriter, taskVars, pc, localVars,
                   envVars, pureVars>>

(***************************************************************************)
(* The environment: the configuration and the clock.                       *)
(***************************************************************************)

SetConfig ==
    /\ \E p \in (Paths \cup {NoPath}) \ {cfgPath} : cfgPath' = p
    /\ UNCHANGED <<listVars, recordVars, lockVars, taskVars, pc, localVars,
                   lookVars, now, pureVars>>

Tick ==
    /\ now < MaxTime
    /\ now' = now + 1
    /\ UNCHANGED <<listVars, recordVars, lockVars, taskVars, pc, localVars,
                   lookVars, cfgPath, pureVars>>

Next ==
    \/ StartRegisterHook
    \/ StartCreateTask
    \/ StartRegisterEndpoint
    \/ TaskRun
    \/ ApiCall
    \/ HookCall
    \/ \E t \in Triggers : GetPath(t)
    \/ \E t \in Triggers : ScheduleNext(t)
    \/ \E t \in Triggers : Stat(t)
    \/ \E t \in Triggers : Compare(t)
    \/ \E t \in Triggers : ParseFile(t)
    \/ \E t \in Triggers : SwapIP(t)
    \/ \E t \in Triggers : SwapDomain(t)
    \/ \E t \in Triggers : SwapASN(t)
    \/ \E t \in Triggers : SwapCountry(t)
    \/ \E t \in Triggers : CheckErr(t)
    \/ \E t \in Triggers : RecordModifiedTime(t)
    \/ \E t \in Triggers : RecordFilePath(t)
    \/ \E t \in Triggers : Unlock(t)
    \/ \E l \in Lookers : LookupCall(l)
    \/ \E l \in Lookers : RLock(l)
    \/ \E l \in Lookers : Read(l)
    \/ \E l \in Lookers : RUnlock(l)
    \/ SetConfig
    \/ Tick

Spec == Init /\ [][Next]_vars

\* The steps of an invocation of checkAndUpdateFilterList that holds the lock.
CheckStep(t) ==
    \/ GetPath(t) \/ ScheduleNext(t) \/ Stat(t) \/ Compare(t) \/ ParseFile(t)
    \/ SwapIP(t) \/ SwapDomain(t) \/ SwapASN(t) \/ SwapCountry(t)
    \/ CheckErr(t) \/ RecordModifiedTime(t) \/ RecordFilePath(t) \/ Unlock(t)

\* Scheduling: a goroutine that can run does run (stat and parse return), and
\* sync.RWMutex hands the lock to the readers that wait when the writer
\* unlocks, before another writer can take it.
Fairness ==
    /\ \A t \in Triggers : WF_vars(CheckStep(t))
    /\ \A l \in Lookers :
          SF_vars(RLock(l)) /\ WF_vars(Read(l)) /\ WF_vars(RUnlock(l))

\* The steps of the program alone: the configuration and the clock stand
\* still (they neither enable nor disable a step of a call that is running).
LiveNext ==
    \/ StartRegisterHook
    \/ StartCreateTask
    \/ StartRegisterEndpoint
    \/ TaskRun
    \/ ApiCall
    \/ HookCall
    \/ \E t \in Triggers : CheckStep(t)
    \/ \E l \in Lookers : LookupCall(l)
    \/ \E l \in Lookers : RLock(l)
    \/ \E l \in Lookers : Read(l)
    \/ \E l \in Lookers : RUnlock(l)

LiveSpec == Init /\ [][LiveNext]_vars /\ Fairness

(***************************************************************************)
(* splitDomain and LookupDomain as functions of their arguments: one call  *)
(* on every input of a bounded set.                                        *)
(***************************************************************************)

\* Domain sets a list file can load.
DomainKeys == {DomRoot, DomSub, DomSubNoDot, DomSuffix}

SplitInit ==
    /\ ProgramInit
    /\ domainsFilterList = {}
    /\ cfgPath = NoPath
    /\ now = 1
    /\ dpc = "call"
    /\ dIn \in StringsUpTo(MaxLen)
    /\ dFlag = FALSE
    /\ dSplit = <<>>
    /\ dRes = NoResult
    /\ SPInit

SplitCall ==
    /\ dpc = "call"
    /\ dSplit' = splitDomain(dIn)
    /\ dpc' = "done"
    /\ UNCHANGED <<listVars, recordVars, lockVars, taskVars, pc, localVars,
                   lookVars, envVars, dIn, dFlag, dRes, spVars>>

SpecSplit == SplitInit /\ [][SplitCall]_vars

LookupInit ==
    /\ ProgramInit
    /\ domainsFilterList \in SUBSET DomainKeys
    /\ cfgPath = NoPath
    /\ now = 1
    /\ dpc = "call"
    /\ dIn \in StringsUpTo(MaxLookupLen)
    /\ dFlag \in BOOLEAN
    /\ dSplit = <<>>
    /\ dRes = NoResult
    /\ SPInit

LookupDomainCall ==
    /\ dpc = "call"
    /\ dRes' = LookupDomain(domainsFilterList, dIn, dFlag)
    /\ dpc' = "done"
    /\ UNCHANGED <<listVars, recordVars, lockVars, taskVars, pc, localVars,
                   lookVars, envVars, dIn, dFlag, dSplit, spVars>>

SpecLookup == LookupInit /\ [][LookupDomainCall]_vars

(***************************************************************************)
(* getSpecialProcess (package process): load-or-create of the two special  *)
(* processes through a singleflight group keyed by the Pid.                *)
(***************************************************************************)

customlistsVars == <<listVars, recordVars, lockVars, taskVars, pc, localVars,
                     lookVars, envVars, dpc, dIn, dFlag, dSplit, dRes>>

\* singleflight Do that runs fn for every caller.
SPCallAlone(g, k) ==
    /\ spPc[g] = "idle"
    /\ spKey' = [spKey EXCEPT ![g] = k]
    /\ spFlight' = [spFlight EXCEPT ![k] = g]
    /\ spPc' = [spPc EXCEPT ![g] = "load"]
    /\ UNCHANGED <<spRet, spStorage, spCreated, customlistsVars>>

\* getSpecialProcessSingleInflight.Do(strconv.Itoa(template.Pid), fn): a
\* caller that finds a call for the key in flight waits for it, another
\* registers its own call and runs fn.
SPCall(g, k) ==
    /\ spPc[g] = "idle"
    /\ spKey' = [spKey EXCEPT ![g] = k]
    /\ IF spFlight[k] # "none"
       THEN /\ spPc' = [spPc EXCEPT ![g] = "wait"]
            /\ UNCHANGED spFlight
       ELSE /\ spFlight' = [spFlight EXCEPT ![k] = g]
            /\ spPc' = [spPc EXCEPT ![g] = "load"]
    /\ UNCHANGED <<spRet, spStorage, spCreated, customlistsVars>>

\* process, ok := GetProcessFromStorage(template.Pid); if ok { return process }
SPLoad(g) ==
    /\ spPc[g] = "load"
    /\ IF spStorage[spKey[g]] # NoProcess
       THEN /\ spRet' = [spRet EXCEPT ![g] = spStorage[spKey[g]]]
            /\ spPc' = [spPc EXCEPT ![g] = "done"]
       ELSE /\ spPc' = [spPc EXCEPT ![g] = "create"]
            /\ UNCHANGED spRet
    /\ UNCHANGED <<spKey, spFlight, spStorage, spCreated, customlistsVars>>

\* process = template; process.FirstSeen = now; process.GetProfile(ctx)
SPCreate(g) ==
    /\ spPc[g] = "create"
    /\ spCreated[spKey[g]] < MaxCreates
    /\ spCreated' = [spCreated EXCEPT ![spKey[g]] = @ + 1]
    /\ spRet' = [spRet EXCEPT ![g] =
                    [pid |-> spKey[g], created |-> spCreated[spKey[g]] + 1]]
    /\ spPc' = [spPc EXCEPT ![g] = "save"]
    /\ UNCHANGED <<spKey, spFlight, spStorage, customlistsVars>>

\* process.Save(); return process
SPSave(g) ==
    /\ spPc[g] = "save"
    /\ spStorage' = [spStorage EXCEPT ![spKey[g]] = spRet[g]]
    /\ spPc' = [spPc EXCEPT ![g] = "done"]
    /\ UNCHANGED <<spKey, spRet, spFlight, spCreated, customlistsVars>>

\* fn has returned: Do forgets the key and hands the value to every caller
\* that waited for this call.
SPDone(g) ==
    /\ spPc[g] = "done"
    /\ LET k == spKey[g]
           waiters == {h \in SPCallers : spPc[h] = "wait" /\ spKey[h] = k}
       IN /\ spFlight' = [spFlight EXCEPT ![k] = IF @ = g THEN "none" ELSE @]
          /\ spRet' = [h \in SPCallers |-> IF h \in waiters THEN spRet[g] ELSE spRet[h]]
          /\ spPc' = [h \in SPCallers |->
                         IF h \in waiters \cup {g} THEN "return" ELSE spPc[h]]
    /\ UNCHANGED <<spKey, spStorage, spCreated, customlistsVars>>

\* return p.(*Process)
SPReturn(g) ==
    /\ spPc[g] = "return"
    /\ spPc' = [spPc EXCEPT ![g] = "idle"]
    /\ spKey' = [spKey EXCEPT ![g] = NoPid]
    /\ spRet' = [spRet EXCEPT ![g] = NoProcess]
    /\ UNCHANGED <<spFlight, spStorage, spCreated, customlistsVars>>

SPSpecInit ==
    /\ ProgramInit
    /\ domainsFilterList = {}
    /\ PureOff
    /\ cfgPath = NoPath
    /\ now = 1

SPNext ==
    \/ \E g \in SPCallers, k \in SpecialPids : SPCall(g, k)
    \/ \E g \in SPCallers : SPLoad(g)
    \/ \E g \in SPCallers : SPCreate(g)
    \/ \E g \in SPCallers : SPSave(g)
    \/ \E g \in SPCallers : SPDone(g)
    \/ \E g \in SPCallers : SPReturn(g)

SpecSP == SPSpecInit /\ [][SPNext]_vars

(***************************************************************************)
(* Properties.                                                             *)
(***************************************************************************)

\* The bundles of four sets a complete parse leaves behind, and the empty
\* bundle of initFilterLists.
CompleteBundles == {BundleOf(c) : c \in Contents \cup {"none"}}

SwapPositions == {"swap_domain", "swap_asn", "swap_country"}

\* C1: a lookup that holds the read lock sees the four sets of one complete
\* parse (the bundle before the reload or the bundle after it), no reload is
\* part-way through replacing the sets while it reads, and the value it
\* returns is the answer of that complete bundle.
C1_LookupSeesCompleteBundle ==
    \A l \in Lookers :
        lpc[l] \in {"read", "runlock"} =>
            /\ CurrentLists \in CompleteBundles
            /\ \A t \in Triggers : pc[t] \notin SwapPositions
            /\ lpc[l] = "runlock" => lres[l] = LookupIn(CurrentLists, lreq[l])

\* Two lookups have been called while a reload of a loaded list has replaced
\* two of the four sets: the sets are a mix, and both lookups wait.
C1_Witness ==
    \E l \in Lookers, m \in Lookers, t \in Triggers :
        /\ l # m
        /\ lpc[l] = "rlock" /\ lpc[m] = "rlock"
        /\ pc[t] = "swap_asn"
        /\ filterListFilePath # NoPath
        /\ CurrentLists \notin CompleteBundles

\* C2: in an invocation whose parse fails, no step from the parse to the
\* return changes any of the four sets, so every lookup answers as before.
C2_FailedParseKeepsLists ==
    [][\A t \in Triggers :
          (parsed[t] = ParseError \/ parsed'[t] = ParseError) =>
              /\ UNCHANGED listVars
              /\ LookupDomain(domainsFilterList', DomSubNoDot, TRUE)
                    = LookupDomain(domainsFilterList, DomSubNoDot, TRUE)]_vars

\* A list is loaded and a later invocation's parse has failed.
C2_Witness ==
    \E t \in Triggers :
        /\ pc[t] = "unlock"
        /\ parsed[t] = ParseError
        /\ filterListFilePath # NoPath
        /\ CurrentLists = BundleOf("c1")
        /\ LookupDomain(domainsFilterList, DomSubNoDot, TRUE).ok

\* The smallest element of a non-empty set of numbers.
Minimum(S) == CHOOSE x \in S : \A y \in S : x <= y

\* C3: LookupDomain(domain, true) returns (true, c) for the first candidate c
\* of splitDomain(domain) that is in the domain set, and (false, "") when no
\* candidate is in the set.
C3_SubdomainFirstMatch ==
    (dpc = "done" /\ dFlag) =>
        LET cands == splitDomain(dIn)
            hits == {i \in 1..Len(cands) : cands[i] \in domainsFilterList}
        IN IF hits = {}
           THEN dRes = [ok |-> FALSE, domain |-> <<>>]
           ELSE dRes = [ok |-> TRUE, domain |-> cands[Minimum(hits)]]

\* The subdomain and its registrable root are both listed and the subdomain
\* is the one returned.
C3_Witness ==
    /\ dpc = "done" /\ dFlag
    /\ dIn = DomSubNoDot
    /\ DomSub \in domainsFilterList /\ DomRoot \in domainsFilterList
    /\ dRes = [ok |-> TRUE, domain |-> DomSub]

\* C4: LookupDomain(domain, false) returns (true, domain) when the input is in
\* the domain set and (false, "") when it is not.
C4_ExactMatchOnly ==
    (dpc = "done" /\ ~dFlag) =>
        dRes = IF dIn \in domainsFilterList
               THEN [ok |-> TRUE, domain |-> dIn]
               ELSE [ok |-> FALSE, domain |-> <<>>]

\* The positions of s where a label starts.
LabelStarts(s) ==
    {i \in 1..Len(s) : s[i] # Dot /\ (i = 1 \/ s[i - 1] = Dot)}

\* s with every run of dots reduced to one dot.
RECURSIVE Collapse(_)
Collapse(s) ==
    IF Len(s) < 2 THEN s
    ELSE IF s[1] = Dot /\ s[2] = Dot THEN Collapse(Tail(s))
    ELSE <<s[1]>> \o Collapse(Tail(s))

\* The i-th smallest element of a set of numbers.
IthSmallest(S, i) == CHOOSE x \in S : Cardinality({y \in S : y < x}) = i - 1

\* C5: for an input that is not its own public suffix, with k labels in front
\* of the suffix, splitDomain returns k >= 1 candidates; candidate i is the
\* name from its i-th label on, followed by one trailing dot.  The first is
\* the whole name, each next one is shorter, the last has one label in front
\* of the suffix, and the suffix itself is not a candidate.
C5_CandidatesOfSplitDomain ==
    LET name == Trim(dIn)
        suffix == PublicSuffix(name)
        full == Collapse(name) \o <<Dot>>
        starts == LabelStarts(SubSeq(full, 1, Len(full) - Len(suffix) - 1))
        k == Cardinality(LabelStarts(SubSeq(name, 1, Len(name) - Len(suffix))))
    IN (dpc = "done" /\ name # suffix) =>
           /\ k >= 1
           /\ Len(dSplit) = k
           /\ \A i \in 1..k :
                 /\ dSplit[i] = SubSeq(full, IthSmallest(starts, i), Len(full))
                 /\ dSplit[i][Len(dSplit[i])] = Dot
                 /\ dSplit[i][Len(dSplit[i]) - 1] # Dot
                 /\ dSplit[i] \notin {suffix, suffix \o <<Dot>>}
                 /\ i < k => Len(dSplit[i + 1]) < Len(dSplit[i])
           /\ dSplit[1] = full
           /\ Cardinality(LabelStarts(dSplit[k])) = 1 + Cardinality(LabelStarts(suffix))

\* An input of three labels in front of its suffix gave three candidates.
C5_Witness ==
    /\ dpc = "done"
    /\ dIn = <<"a", ".", "b", ".", "a", ".", "u">>
    /\ Len(dSplit) = 3
    /\ dSplit[3] = DomRoot

\* C6: when the trimmed input is its own public suffix (a rule of the list, a
\* name of one label, or the empty string), splitDomain returns the trimmed
\* input as its only candidate, with no dot added.
C6_BareSuffixUnchanged ==
    LET name == Trim(dIn)
    IN (/\ dpc = "done"
        /\ \/ name = PublicSuffix(name)
           \/ name \in PSLNodes
           \/ \A i \in 1..Len(name) : name[i] # Dot) =>
           dSplit = <<name>>

\* The input ".b.u." is trimmed to the rule "b.u" and returned as it is.
C6_Witness ==
    /\ dpc = "done"
    /\ dIn = <<Dot, "b", Dot, "u", Dot>>
    /\ dSplit = <<<<"b", Dot, "u">>>>

\* C7: an invocation that finds the configured path and the modification time
\* equal to the recorded ones does not parse and leaves the four sets, the
\* recorded path and the recorded modification time as they are.
C7_UnchangedFileNoParse ==
    [][\A t \in Triggers :
          (/\ pc[t] \in {"compare", "unlock"}
           /\ parsed[t] = "none"
           /\ filterListFilePath = filePath[t]
           /\ filterListFileModifiedTime = modifiedTime[t]) =>
              /\ pc'[t] \in {pc[t], "unlock", "idle"}
              /\ UNCHANGED <<listVars, recordVars>>]_vars

\* After a successful reload a later invocation found nothing changed and is
\* about to return.
C7_Witness ==
    \E t \in Triggers :
        /\ pc[t] = "unlock"
        /\ parsed[t] = "none"
        /\ filePath[t] # NoPath
        /\ filterListFilePath = filePath[t]
        /\ filterListFileModifiedTime = modifiedTime[t]
        /\ CurrentLists = BundleOf("c1")

\* C8: when no path is configured and a check has seen that, every lookup
\* returns "not found": the four sets have no member.
C8_EmptyPathNotFound ==
    \A t \in Triggers :
        (pc[t] = "unlock" /\ filePath[t] = NoPath /\ cfgPath = NoPath /\ ~panicked) =>
            /\ CurrentLists = BundleOf("none")
            /\ \A r \in Requests : ~LookupIn(CurrentLists, r).ok

\* The positions of checkAndUpdateFilterList between Lock and Unlock.
InCheck(t) == pc[t] # "idle"

\* C9: at most one invocation of checkAndUpdateFilterList is between reading
\* the configured path and its return, and it holds the write lock.
C9_ChecksSerialized ==
    /\ Cardinality({t \in Triggers : InCheck(t)}) <= 1
    /\ \A t \in Triggers : InCheck(t) => lockWriter = t

\* One invocation is about to parse while the two other sources are due to
\* call and are kept out by the lock.
C9_Witness ==
    /\ pc["hook"] = "parse"
    /\ EndpointRegistered /\ pc["api"] = "idle"
    /\ taskScheduled /\ pc["task"] = "idle"

\* C10: a failed parse leaves the recorded path and modification time as they
\* were, so they still differ from what the invocation observed, and an
\* invocation that observes a difference parses.
C10_FailedParseRetried ==
    [][\A t \in Triggers :
          /\ (parsed[t] = ParseError \/ parsed'[t] = ParseError) =>
                UNCHANGED recordVars
          /\ (pc[t] = "unlock" /\ parsed[t] = ParseError) =>
                \/ filterListFilePath # filePath[t]
                \/ filterListFileModifiedTime # modifiedTime[t]
          /\ (/\ pc[t] = "compare"
              /\ \/ filterListFilePath # filePath[t]
                 \/ filterListFileModifiedTime # modifiedTime[t]) =>
                pc'[t] \in {"compare", "parse"}]_vars

\* The file of the loaded list changed and its parse failed.
C10_Witness ==
    \E t \in Triggers :
        /\ pc[t] = "unlock"
        /\ parsed[t] = ParseError
        /\ filePath[t] = filterListFilePath
        /\ filePath[t] # NoPath
        /\ modifiedTime[t] # filterListFileModifiedTime

\* C11: the write lock is not held while an invocation does the stat, the
\* comparison or the parse, and no lookup is kept waiting for the read lock
\* meanwhile.
C11_LockOnlyForSwap ==
    \A t \in Triggers :
        pc[t] \in {"stat", "compare", "parse"} =>
            /\ lockWriter # t
            /\ \A l \in Lookers : lpc[l] = "rlock" => CanRLock

C13_RearmedBeforeParse ==
    \A t \in Triggers :
        (pc[t] \notin {"idle", "getpath", "schedule"} /\ filePath[t] # NoPath) =>
            taskScheduled

\* C14: an invocation that finds the configured path empty goes straight to
\* its return: it does not stat, parse or schedule, and it changes neither
\* the four sets nor the recorded path and modification time.
C14_EmptyPathDoesNothing ==
    [][\A t \in Triggers :
          (/\ pc'[t] # pc[t]
           /\ \/ pc[t] = "getpath" /\ cfgPath = NoPath
              \/ pc[t] = "unlock" /\ filePath[t] = NoPath) =>
              /\ pc'[t] \in {"unlock", "idle"}
              /\ UNCHANGED <<listVars, recordVars, parserTask, taskScheduled>>]_vars

\* A list is loaded, no run of the task is pending, and an invocation that
\* found the path empty is about to return.
C14_Witness ==
    \E t \in Triggers :
        /\ pc[t] = "unlock"
        /\ filePath[t] = NoPath
        /\ cfgPath = NoPath
        /\ ~taskScheduled
        /\ filterListFilePath # NoPath
        /\ CurrentLists = BundleOf("c2")

\* C16: an invocation that observes a path different from the recorded one,
\* or a modification time different from the recorded one, goes on to parse;
\* after a successful parse the recorded path and modification time are the
\* ones the invocation observed.
C16_ParseOnAnyDifference ==
    [][\A t \in Triggers :
          /\ (pc[t] = "compare" /\ pc'[t] # "compare") =>
                (pc'[t] = "parse" <=>
                    (\/ filePath[t] # filterListFilePath
                     \/ modifiedTime[t] # filterListFileModifiedTime))
          /\ (pc'[t] = "unlock" /\ parsed'[t] \in Contents) =>
                /\ filterListFilePath' = filePath'[t]
                /\ filterListFileModifiedTime' = modifiedTime'[t]]_vars

\* The configured path changed to a file with the recorded modification time,
\* and the invocation is about to parse.
C16_Witness ==
    \E t \in Triggers :
        /\ pc[t] = "parse"
        /\ filterListFilePath # NoPath
        /\ filePath[t] # filterListFilePath
        /\ modifiedTime[t] = filterListFileModifiedTime

\* C18: whenever an invocation is about to call parserTask.Schedule, the
\* parser task has been created.
C18_TaskCreatedBeforeSchedule ==
    /\ ~panicked
    /\ \A t \in Triggers : pc[t] = "schedule" => parserTask # "nil"

\* C15: when os.Stat fails the invocation compares with the clock reading;
\* what it records after a successful parse is that reading, which is never
\* ahead of the clock; and whenever the recorded time is behind the reading
\* (the clock, which never goes back, has advanced since it was recorded) the
\* invocation parses.
C15_StatFailureRetries ==
    [][/\ now' >= now
       /\ \A t \in Triggers :
             /\ (pc[t] = "stat" /\ pc'[t] = "compare" /\ statErr'[t]) =>
                   modifiedTime'[t] = now
             /\ (pc[t] = "compare" /\ pc'[t] # "compare" /\ statErr[t]
                 /\ filterListFileModifiedTime < modifiedTime[t]) =>
                   pc'[t] = "parse"
             /\ (pc[t] = "record_mtime" /\ pc'[t] # "record_mtime" /\ statErr[t]) =>
                   /\ filterListFileModifiedTime' = modifiedTime[t]
                   /\ filterListFileModifiedTime' <= now']_vars

\* The recorded time is the clock reading of an earlier invocation whose stat
\* failed; the clock has advanced, the stat of the same path fails again and
\* the invocation is about to parse.
C15_Witness ==
    \E t \in Triggers :
        /\ pc[t] = "parse"
        /\ statErr[t]
        /\ filePath[t] = filterListFilePath
        /\ filterListFileModifiedTime = 1
        /\ modifiedTime[t] = 2
        /\ now = 2

\* C17: the recorded pair and the four sets change only in steps of the
\* invocation that holds the lock and whose parse succeeded; when that
\* invocation is about to return, the sets are those of its parse and the
\* recorded path and modification time are the ones it observed; and whenever
\* the write lock is free, either the sets are empty and nothing is recorded,
\* or the sets are those of one parse and a path and a time are recorded.
C17_ListsAndRecordBelongTogether ==
    [][/\ (recordVars' # recordVars \/ listVars' # listVars) =>
             \E t \in Triggers :
                 lockWriter = t /\ lockWriter' = t /\ parsed[t] \in Contents
       /\ \A t \in Triggers :
             (pc'[t] = "unlock" /\ parsed'[t] \in Contents) =>
                 /\ CurrentLists' = BundleOf(parsed'[t])
                 /\ <<filterListFilePath', filterListFileModifiedTime'>>
                        = <<filePath'[t], modifiedTime'[t]>>
       /\ lockWriter' = "none" =>
             \/ /\ CurrentLists' = BundleOf("none")
                /\ filterListFilePath' = NoPath
                /\ filterListFileModifiedTime' = ZeroTime
             \/ /\ CurrentLists' \in {BundleOf(c) : c \in Contents}
                /\ filterListFilePath' # NoPath
                /\ filterListFileModifiedTime' # ZeroTime]_vars

\* A lookup reads the list of the second parse recorded for path q.
C17_Witness ==
    \E l \in Lookers :
        /\ lpc[l] = "read"
        /\ lockWriter = "none"
        /\ CurrentLists = BundleOf("c2")
        /\ filterListFilePath = "q"
        /\ filterListFileModifiedTime = 2

\* C19: the write lock is held exactly by an invocation that is running and
\* the read lock by the lookups that are reading; every invocation returns,
\* and every lookup that waits for the read lock gets it and returns.
C19_EveryCallReturns ==
    /\ [](/\ \A t \in Triggers : (pc[t] # "idle") <=> (lockWriter = t)
          /\ lockReaders = {l \in Lookers : lpc[l] \in {"read", "runlock"}}
          /\ lockWriter # "none" => lockReaders = {})
    /\ \A t \in Triggers : (pc[t] # "idle") ~> (pc[t] = "idle")
    /\ \A l \in Lookers : (lpc[l] = "rlock") ~> (lpc[l] = "idle")

\* A lookup waits for the read lock while an invocation that failed to parse
\* is about to return.
C19_Witness ==
    \E l \in Lookers, t \in Triggers :
        /\ lpc[l] = "rlock"
        /\ pc[t] = "unlock"
        /\ parsed[t] = ParseError
        /\ lockWriter = t

\* The callers that are running the load-or-create body for Pid k.
InBody(k) ==
    {g \in SPCallers : spKey[g] = k /\ spPc[g] \in {"load", "create", "save", "done"}}

\* C20: for each special Pid at most one caller is in the load-or-create
\* body, the create-and-save branch has run at most once, and every caller
\* that returns returns the process that branch created.
C20_SpecialProcessSingleFlight ==
    \A k \in SpecialPids :
        /\ Cardinality(InBody(k)) <= 1
        /\ spCreated[k] <= 1
        /\ \A g \in SPCallers :
              (spPc[g] = "return" /\ spKey[g] = k) =>
                  spRet[g] = [pid |-> k, created |-> 1]

\* The unidentified process is stored; a later call loads it while a second
\* caller waits for that call and a third has its result.
C20_Witness ==
    \E g \in SPCallers, h \in SPCallers, i \in SPCallers :
        /\ spKey[g] = UnidentifiedProcessID /\ spPc[g] = "load"
        /\ spKey[h] = UnidentifiedProcessID /\ spPc[h] = "wait"
        /\ spKey[i] = UnidentifiedProcessID /\ spPc[i] = "return"
        /\ spStorage[UnidentifiedProcessID] = [pid |-> UnidentifiedProcessID, created |-> 1]

====
